---- MODULE Spec2Model ----
(***************************************************************************)
(* Model of notebook/static/tree/js/treeactions.js: the ActionHandler      *)
(* registry of the file-list page (built-in table, register, normalise,    *)
(* get_name, get, exists, call, extend_env) and the row-navigation         *)
(* handlers it dispatches to.                                              *)
(*                                                                         *)
(* JavaScript values are records with a type tag t.  Strings are sequences *)
(* of tokens (words and the separators "-", "." and " "), so that          *)
(* concatenation and replace(/-/g,' ') are computed, not assumed.          *)
(***************************************************************************)
EXTENDS Integers, Sequences, FiniteSets, TLC

(* ------------------------------------------------------------------ *)
(* Bounds                                                              *)
(* ------------------------------------------------------------------ *)
\* largest number of rows of the file list
MaxRows == 2
\* largest number of entries added to the table beyond the built-in ones
MaxRegistered == 1

(* ------------------------------------------------------------------ *)
(* JavaScript values                                                   *)
(* ------------------------------------------------------------------ *)
Undefined == [t |-> "undefined", s |-> <<>>]
Null      == [t |-> "null", s |-> <<>>]
True      == [t |-> "boolean", s |-> <<"true">>]
False     == [t |-> "boolean", s |-> <<"false">>]
Str(toks) == [t |-> "string", s |-> toks]
Fn(id)    == [t |-> "function", s |-> id]
EmptyStr  == Str(<<>>)

\* typeof(v)
TypeOf(v) == IF v.t = "null" THEN "object" ELSE v.t

\* ToBoolean(v), as used by || and if(...)
Truthy(v) ==
    CASE v.t = "undefined" -> FALSE
      [] v.t = "null"      -> FALSE
      [] v.t = "string"    -> v.s # <<>>
      [] v.t = "boolean"   -> v = True
      [] OTHER             -> TRUE

\* a || b
Or(a, b) == IF Truthy(a) THEN a ELSE b

\* Whether reading a property of v throws a TypeError (v is null or undefined).
PropThrows(v) == v.t \in {"undefined", "null"}

\* v[field] for field one of handler, help, icon, help_index: an own property
\* of an object literal, undefined on every other value that has properties.
Prop(v, field) ==
    IF v.t = "object" /\ field \in DOMAIN v THEN v[field] ELSE Undefined

\* The two values thrown: the string of the throw statement in normalise, and
\* the engine's TypeError (a property read on undefined or null, a call of a
\* value that is not a function).
UnknownDatatype == "unknown datatype, cannot register"
TypeError == "TypeError"
NoThrow == "none"

(* ------------------------------------------------------------------ *)
(* Strings                                                             *)
(* ------------------------------------------------------------------ *)
\* subkey.replace(/-/g,' ')
ReplaceDashes(toks) ==
    [i \in 1..Len(toks) |-> IF toks[i] = "-" THEN " " ELSE toks[i]]

(* ------------------------------------------------------------------ *)
(* The raw tables                                                      *)
(* ------------------------------------------------------------------ *)
enter_row           == <<"enter", "-", "row">>
select_previous_row == <<"select", "-", "previous", "-", "row">>
select_next_row     == <<"select", "-", "next", "-", "row">>
ignore              == <<"ignore">>
move_cursor_up      == <<"move", "-", "cursor", "-", "up", "-", "or", "-", "previous", "-", "cell">>
move_cursor_down    == <<"move", "-", "cursor", "-", "down", "-", "or", "-", "next", "-", "cell">>
scroll_down         == <<"scroll", "-", "down">>
scroll_up           == <<"scroll", "-", "up">>
scroll_cell_center  == <<"scroll", "-", "cell", "-", "center">>
scroll_cell_top     == <<"scroll", "-", "cell", "-", "top">>
save_notebook       == <<"save", "-", "notebook">>

\* A raw handler is the function value Fn(<<"raw">> \o subkey).
Raw(subkey) == Fn(<<"raw">> \o subkey)

\* var _actions = {...}: the simple actions
_actions ==
    [k \in {enter_row, select_previous_row, select_next_row} |->
        CASE k = enter_row ->
               [t |-> "object",
                help |-> Str(<<"opens active file or directory">>),
                help_index |-> Str(<<"aa">>),
                handler |-> Raw(k)]
          [] k = select_previous_row ->
               [t |-> "object",
                help |-> Str(<<"moves focus to previous file or directory">>),
                help_index |-> Str(<<"ab">>),
                handler |-> Raw(k)]
          [] k = select_next_row ->
               [t |-> "object",
                help |-> Str(<<"moves focus to next file or directory">>),
                help_index |-> Str(<<"ac">>),
                handler |-> Raw(k)]]

\* var custom_ignore = {...}: the advanced actions
custom_ignore ==
    [k \in {ignore, move_cursor_up, move_cursor_down, scroll_down, scroll_up,
            scroll_cell_center, scroll_cell_top, save_notebook} |->
        CASE k = scroll_cell_center ->
               [t |-> "object",
                help |-> Str(<<"Scroll the current cell to the center">>),
                handler |-> Raw(k)]
          [] k = scroll_cell_top ->
               [t |-> "object",
                help |-> Str(<<"Scroll the current cell to the top">>),
                handler |-> Raw(k)]
          [] k = save_notebook ->
               [t |-> "object",
                help |-> Str(<<"Save and Checkpoint">>),
                help_index |-> Str(<<"fb">>),
                icon |-> Str(<<"fa", "-", "save">>),
                handler |-> Raw(k)]
          [] OTHER ->
               [t |-> "object", handler |-> Raw(k)]]

\* 'ipython.'+subkey
Ipython(subkey) == <<"ipython", ".">> \o subkey

\* The entry _prepare_handler stores under 'ipython.'+subkey, before fun sets
\* its handler; wrapper is the function fun then stores as the handler.
_prepare_handler(subkey, source, wrapper) ==
    [t          |-> "object",
     help       |-> Or(Prop(source[subkey], "help"), Str(ReplaceDashes(subkey))),
     help_index |-> Prop(source[subkey], "help_index"),
     icon       |-> Prop(source[subkey], "icon"),
     handler    |-> wrapper]

\* The wrappers fun builds around the raw handlers.
SimpleWrapper(subkey)   == Fn(<<"simple">> \o subkey)
AdvancedWrapper(subkey) == Fn(<<"advanced">> \o subkey)

\* fun(): the table of built-in actions
fun ==
    [n \in {Ipython(k) : k \in DOMAIN _actions \cup DOMAIN custom_ignore} |->
        LET k == SubSeq(n, 3, Len(n)) IN
        IF k \in DOMAIN _actions
        THEN _prepare_handler(k, _actions, SimpleWrapper(k))
        ELSE _prepare_handler(k, custom_ignore, AdvancedWrapper(k))]

(* ------------------------------------------------------------------ *)
(* Functions and data handed to register / get_name                    *)
(* ------------------------------------------------------------------ *)
\* Two functions of the caller.
f1 == Fn(<<"user", "f1">>)
f2 == Fn(<<"user", "f2">>)
UserFunctions == {f1, f2}

\* String(handler): the source text of a function, one token.
FnText(f) ==
    CASE f = f1 -> <<"function(){return true;}">>
      [] f = f2 -> <<"function(env, event){event.preventDefault(); return false;}">>
      [] OTHER  -> <<"function(env, event){[wrapper]}">>

\* The values given as the `action` argument of register and get_name: a bare
\* function, an action with a help text, and three values without a callable
\* handler.
ValidData ==
    {f1, [t |-> "object", handler |-> f2, help |-> Str(<<"my help">>)]}
InvalidData ==
    { [t |-> "object"],
      [t |-> "object", handler |-> Str(<<"notafunction">>), help |-> Str(<<"h">>)],
      Null }
Data == ValidData \cup InvalidData

\* The values given as `name` and as `prefix`; Undefined is an omitted argument.
NameArgs   == {Undefined, Str(ignore)}
PrefixArgs == {Undefined, Str(<<"ipython">>)}

(* ------------------------------------------------------------------ *)
(* Environments                                                        *)
(* ------------------------------------------------------------------ *)
\* An environment object: a set of <<key, value>> pairs, one per key.
EnvObj(pairs) == [t |-> "object", props |-> pairs]
EmptyEnv == EnvObj({})
Keys(e) == {p[1] : p \in e.props}
HasKey(e, k) == k \in Keys(e)

ListEnv == EnvObj({<<"notebooklist", "list">>})
FullEnv == EnvObj({<<"notebooklist", "list">>, <<"notebook", "nb">>})
\* The environments given to the constructor and to extend_env, and the env
\* argument of call (Undefined: omitted).
EnvArgs == {EmptyEnv, ListEnv, FullEnv}
CallEnvArgs == {Undefined, EmptyEnv, FullEnv}

\* for(var k in env){ this.env[k] = env[k]; }
Merge(held, partial) ==
    EnvObj({p \in held.props : p[1] \notin Keys(partial)} \cup partial.props)

(* ------------------------------------------------------------------ *)
(* State                                                               *)
(* ------------------------------------------------------------------ *)
Instances == {"i1", "i2"}

VARIABLES
    proto_actions,  \* ActionHandler.prototype._actions: name -> action record
    own_actions,    \* each instance's own _actions property: <<>> (none) or <<table>>
    constructed,    \* the ActionHandler instances constructed so far
    env,            \* this.env of each instance
    nbl,            \* the file list: rows, selected index, number of focused rows
    last            \* the last operation: its arguments and what it did

vars == <<proto_actions, own_actions, constructed, env, nbl, last>>

(* ------------------------------------------------------------------ *)
(* The file list the simple handlers drive (env.notebooklist)          *)
(* ------------------------------------------------------------------ *)
\* env.notebooklist.get_length_siblings(selector)
get_length_siblings(nb, selector) ==
    IF selector = ".focus" THEN nb.focus ELSE nb.rows

\* env.notebooklist.get_selected_index()
get_selected_index(nb) == nb.index

\* env.notebooklist.select_row(i): the states of the list after the call.  A
\* row in range becomes the selected, focused row; an index past the last row
\* matches no row, the selection stays and the focus is kept or lost.
select_row(nb, i) ==
    IF i \in 0..(nb.rows - 1)
    THEN {[nb EXCEPT !.index = i, !.focus = 1]}
    ELSE {[nb EXCEPT !.focus = f] : f \in {0, nb.focus}}

(* ------------------------------------------------------------------ *)
(* Handlers                                                            *)
(* ------------------------------------------------------------------ *)
\* What one run of a handler did: the value thrown (or NoThrow), the value
\* returned, whether event.preventDefault() was called, the arguments of the
\* select_row calls made, whether open() was called, and the list afterwards.
Ran(threw, ret, pd, sel, opened, nb) ==
    [threw |-> threw, ret |-> ret, pd |-> pd, sel |-> sel, opened |-> opened, nbl |-> nb]

Threw(what, pd, nb) == Ran(what, Undefined, pd, <<>>, FALSE, nb)
Returned(ret, pd, nb) == Ran(NoThrow, ret, pd, <<>>, FALSE, nb)
Selected(nb, i) == {Ran(NoThrow, Undefined, FALSE, <<i>>, FALSE, n) : n \in select_row(nb, i)}

\* _actions['enter-row'].handler(env)
enter_row_handler(e, nb) ==
    IF ~HasKey(e, "notebooklist") THEN {Threw(TypeError, FALSE, nb)}
    ELSE LET len_sib == get_length_siblings(nb, ".focus") IN
         {Ran(NoThrow, Undefined, FALSE, <<>>, len_sib > 0, nb)}

\* _actions['select-previous-row'].handler(env)
select_previous_row_handler(e, nb) ==
    IF ~HasKey(e, "notebooklist") THEN {Threw(TypeError, FALSE, nb)}
    ELSE LET focused == get_length_siblings(nb, ".focus") IN
         IF focused > 0
         THEN LET index == get_selected_index(nb) IN
              IF index > 0 THEN Selected(nb, index - 1)
              ELSE {Returned(Undefined, FALSE, nb)}
         ELSE IF focused = 0 THEN Selected(nb, 0)
         ELSE {Returned(Undefined, FALSE, nb)}

\* _actions['select-next-row'].handler(env)
select_next_row_handler(e, nb) ==
    IF ~HasKey(e, "notebooklist") THEN {Threw(TypeError, FALSE, nb)}
    ELSE LET focused == get_length_siblings(nb, ".focus")
             len_sib == get_length_siblings(nb, ".list_item") IN
         IF focused > 0
         THEN LET index == get_selected_index(nb) IN
              IF index < len_sib THEN Selected(nb, index + 1)
              ELSE {Returned(Undefined, FALSE, nb)}
         ELSE IF focused = 0 THEN Selected(nb, 0)
         ELSE {Returned(Undefined, FALSE, nb)}

\* The raw handler of a simple action, called as handler(env).
RawSimple(k, e, nb) ==
    CASE k = enter_row           -> enter_row_handler(e, nb)
      [] k = select_previous_row -> select_previous_row_handler(e, nb)
      [] k = select_next_row     -> select_next_row_handler(e, nb)

\* What the calls into env.notebook (scroll, scroll_cell_percent) may return.
NotebookReturns == {True, False}

\* The raw handler of an advanced action, called as handler(env, event); ev
\* says whether an event was given.  env.notebook is outside this file: its
\* conditions and return values are free.
RawAdvanced(k, e, ev, nb) ==
    CASE k = ignore ->
           {Returned(True, FALSE, nb)}
      [] k \in {move_cursor_up, move_cursor_down} ->
           IF ~HasKey(e, "notebook") THEN {Threw(TypeError, FALSE, nb)}
           ELSE {Returned(False, moves /\ ev, nb) : moves \in BOOLEAN}
      [] k \in {scroll_down, scroll_up, scroll_cell_center, scroll_cell_top} ->
           IF ~HasKey(e, "notebook") THEN {Threw(TypeError, ev, nb)}
           ELSE {Returned(r, ev, nb) : r \in NotebookReturns}
      [] k = save_notebook ->
           IF ~HasKey(e, "notebook") THEN {Threw(TypeError, FALSE, nb)}
           ELSE {Returned(False, ev, nb)}

\* a wrapper that hands on what the raw handler did
SimpleWrap_passthrough(raw, ev) == raw

\* function(env, event){ handler(env); if(event){event.preventDefault();} return false; }
\* applied to what the raw handler did.
SimpleWrap(raw, ev) ==
    IF raw.threw # NoThrow THEN raw
    ELSE [raw EXCEPT !.ret = False, !.pd = raw.pd \/ ev]

\* a wrapper that intercepts the event as the simple one does
AdvancedWrap_intercepts(raw, ev) ==
    IF raw.threw # NoThrow THEN raw
    ELSE [raw EXCEPT !.ret = False, !.pd = raw.pd \/ ev]

\* function(env, event){ return handler(env, event); }
AdvancedWrap(raw, ev) == raw

\* The functions of the caller, called as f(env, event).
UserHandler(f, e, ev, nb) ==
    CASE f = f1 -> {Returned(True, FALSE, nb)}
      [] f = f2 -> IF ev THEN {Returned(False, TRUE, nb)}
                   ELSE {Threw(TypeError, FALSE, nb)}

\* h(e, event) for a function value h: pairs <<raw, out>> of what the raw
\* handler did and what the call of h did.
Invoke(h, e, ev, nb) ==
    LET kind == Head(h.s)
        k    == Tail(h.s)
    IN  CASE kind = "simple" ->
               {<<r, SimpleWrap(r, ev)>> : r \in RawSimple(k, e, nb)}
          [] kind = "advanced" ->
               {<<r, AdvancedWrap(r, ev)>> : r \in RawAdvanced(k, e, ev, nb)}
          [] kind = "user" ->
               {<<r, r>> : r \in UserHandler(h, e, ev, nb)}

(* ------------------------------------------------------------------ *)
(* The registry                                                        *)
(* ------------------------------------------------------------------ *)
\* The properties every object literal inherits from Object.prototype.
ObjectPrototype == {<<"constructor">>, <<"toString">>}

\* tbl[name] for a table (an object literal) and a string name
Lookup(tbl, name) ==
    IF name.s \in DOMAIN tbl THEN tbl[name.s]
    ELSE IF name.s \in ObjectPrototype THEN Fn(<<"native">> \o name.s)
    ELSE Undefined

\* a table that holds the new entry only
Put_fresh(tbl, key, action) == [x \in {key} |-> action]

\* tbl[key] = action
Put(tbl, key, action) ==
    [x \in DOMAIN tbl \cup {key} |-> IF x = key THEN action ELSE tbl[x]]

\* a constructor that gives each instance a table of its own
ActionHandler_own_table(e) == [env |-> Or(e, EmptyEnv), _actions |-> <<fun>>]

\* var ActionHandler = function (env) {...}: the own properties the
\* constructor gives the new object.  It sets env and seals the object; it
\* sets no _actions.
ActionHandler(e) == [env |-> Or(e, EmptyEnv), _actions |-> <<>>]

\* this._actions: the instance's own property if it has one, else the
\* property of ActionHandler.prototype.
ActionsOf(i) ==
    IF own_actions[i] # <<>> THEN own_actions[i][1] ELSE proto_actions

\* this._actions[...] = ...: the object this._actions names becomes tbl.
Store(i, tbl) ==
    IF own_actions[i] # <<>>
    THEN /\ own_actions' = [own_actions EXCEPT ![i] = <<tbl>>]
         /\ UNCHANGED proto_actions
    ELSE /\ proto_actions' = tbl
         /\ UNCHANGED own_actions

\* ActionHandler.prototype.normalise: [threw, val]
normalise(data) ==
    LET d == IF TypeOf(data) = "function"
             THEN [t |-> "object", handler |-> data]
             ELSE data
    IN  IF PropThrows(d) THEN [threw |-> TypeError, val |-> Undefined]
        ELSE IF TypeOf(Prop(d, "handler")) # "function"
        THEN [threw |-> UnknownDatatype, val |-> Undefined]
        ELSE [threw |-> NoThrow,
              val |-> [t          |-> "object",
                       handler    |-> Prop(d, "handler"),
                       help       |-> Or(Prop(d, "help"), EmptyStr),
                       icon       |-> Or(Prop(d, "icon"), EmptyStr),
                       help_index |-> Or(Prop(d, "help_index"), EmptyStr)]]

\* register without the default prefix
register_no_default_prefix(i, action, name, prefix) ==
    LET a == normalise(action) IN
    IF a.threw # NoThrow
    THEN [threw |-> a.threw, ret |-> Undefined, tbl |-> ActionsOf(i)]
    ELSE LET nm == IF ~Truthy(name)
                   THEN Str(<<"autogenerated", "-">> \o FnText(a.val.handler))
                   ELSE name
             full_name == IF Truthy(prefix) THEN prefix.s \o <<".">> \o nm.s ELSE nm.s
         IN  [threw |-> NoThrow,
              ret   |-> Str(full_name),
              tbl   |-> Put(ActionsOf(i), full_name, a.val)]

\* ActionHandler.prototype.register: [threw, ret, tbl], tbl the table afterwards
register(i, action, name, prefix) ==
    LET a == normalise(action) IN
    IF a.threw # NoThrow
    THEN [threw |-> a.threw, ret |-> Undefined, tbl |-> ActionsOf(i)]
    ELSE LET nm == IF ~Truthy(name)
                   THEN Str(<<"autogenerated", "-">> \o FnText(a.val.handler))
                   ELSE name
             pf == Or(prefix, Str(<<"auto">>))
             full_name == pf.s \o <<".">> \o nm.s
         IN  [threw |-> NoThrow,
              ret   |-> Str(full_name),
              tbl   |-> Put(ActionsOf(i), full_name, a.val)]

\* ActionHandler.prototype.get
get(i, name) == Lookup(ActionsOf(i), name)

\* ActionHandler.prototype.exists
exists(i, name) == TypeOf(get(i, name)) # "undefined"

\* ActionHandler.prototype.get_name: [threw, ret, tbl]
get_name(i, name_or_data) ==
    IF TypeOf(name_or_data) = "string"
    THEN [threw |-> NoThrow,
          ret   |-> IF exists(i, name_or_data) THEN name_or_data ELSE Null,
          tbl   |-> ActionsOf(i)]
    ELSE register(i, name_or_data, Undefined, Undefined)

\* entry.handler(e || this.env, event): what the raw handler did (raw) and
\* what the call did (out); ran is the handler that was run and env the
\* environment it was given.
run_handler(i, entry, ev, e, nb) ==
    {[ran |-> Prop(entry, "handler"), env |-> Or(e, env[i]), raw |-> p[1], out |-> p[2]] :
        p \in Invoke(Prop(entry, "handler"), Or(e, env[i]), ev, nb)}

\* The outcome of a call that ran no handler.
NotRun(out) == {[ran |-> Undefined, env |-> Undefined, raw |-> out, out |-> out]}

\* call with a lookup that answers undefined for a name it does not find
call_sentinel(i, name, ev, e, nb) ==
    LET entry == get(i, name) IN
    IF PropThrows(entry) \/ TypeOf(Prop(entry, "handler")) # "function"
    THEN NotRun(Returned(Undefined, FALSE, nb))
    ELSE run_handler(i, entry, ev, e, nb)

\* ActionHandler.prototype.call: this._actions[name].handler(env || this.env, event).
\* Reading .handler of undefined and calling a handler that is no function
\* both throw a TypeError before any handler runs.
call(i, name, ev, e, nb) ==
    LET entry == get(i, name) IN
    IF PropThrows(entry) \/ TypeOf(Prop(entry, "handler")) # "function"
    THEN NotRun(Threw(TypeError, FALSE, nb))
    ELSE run_handler(i, entry, ev, e, nb)

(* ------------------------------------------------------------------ *)
(* Operations                                                          *)
(* ------------------------------------------------------------------ *)
\* The names given to get_name, get, exists and call: a built-in name, names
\* register can produce from the arguments above, a name inherited from
\* Object.prototype and a name nothing registers.
no_such_action == <<"no", ".", "such", ".", "action">>
autogenerated(f) == <<"autogenerated", "-">> \o FnText(f)
RegisteredNames ==
    {Str(<<"auto", ".">> \o ignore), Str(<<"auto", ".">> \o autogenerated(f1)),
     Str(<<"ipython", ".">> \o autogenerated(f2))}
OtherNames == {Str(no_such_action), Str(<<"constructor">>)}
Names == {Str(Ipython(ignore))} \cup RegisteredNames \cup OtherNames
\* The names of the built-in actions, simple and advanced.
SimpleNames   == {Str(Ipython(k)) : k \in DOMAIN _actions}
AdvancedNames == {Str(Ipython(k)) : k \in DOMAIN custom_ignore}

\* The entries of a table that fun() did not put there.
Added(tbl) == {k \in DOMAIN tbl : k \notin DOMAIN fun \/ tbl[k] # fun[k]}

\* The record of an operation that ran no handler.
Done(op, arg, threw, ret) ==
    [op |-> op, arg |-> arg, name |-> Undefined, prefix |-> Undefined,
     event |-> FALSE, env |-> Undefined, threw |-> threw, ret |-> ret, pd |-> FALSE,
     ran |-> Undefined, rawThrew |-> NoThrow, rawRet |-> Undefined,
     rawPd |-> FALSE, sel |-> <<>>, opened |-> FALSE]

\* new ActionHandler(e)
Construct(i, e) ==
    /\ i \notin constructed
    /\ constructed' = constructed \cup {i}
    /\ env' = [env EXCEPT ![i] = ActionHandler(e).env]
    /\ own_actions' = [own_actions EXCEPT ![i] = ActionHandler(e)._actions]
    /\ last' = Done("new", e, NoThrow, Undefined)
    /\ UNCHANGED <<proto_actions, nbl>>

\* handler.extend_env(partial)
ExtendEnv(i, partial) ==
    /\ i \in constructed
    /\ env' = [env EXCEPT ![i] = Merge(env[i], partial)]
    /\ last' = Done("extend_env", partial, NoThrow, Undefined)
    /\ UNCHANGED <<proto_actions, own_actions, constructed, nbl>>

\* handler.register(action, name, prefix)
Register(i, action, name, prefix) ==
    /\ i \in constructed
    /\ LET r == register(i, action, name, prefix) IN
        /\ Cardinality(Added(r.tbl)) <= MaxRegistered
        /\ Store(i, r.tbl)
        /\ last' = [Done("register", action, r.threw, r.ret)
                       EXCEPT !.name = name, !.prefix = prefix]
    /\ UNCHANGED <<constructed, env, nbl>>

\* handler.get_name(name_or_data)
GetName(i, name_or_data) ==
    /\ i \in constructed
    /\ LET r == get_name(i, name_or_data) IN
        /\ Cardinality(Added(r.tbl)) <= MaxRegistered
        /\ Store(i, r.tbl)
        /\ last' = Done("get_name", name_or_data, r.threw, r.ret)
    /\ UNCHANGED <<constructed, env, nbl>>

\* handler.get(name)
Get(i, name) ==
    /\ i \in constructed
    /\ last' = Done("get", name, NoThrow, get(i, name))
    /\ UNCHANGED <<proto_actions, own_actions, constructed, env, nbl>>

\* handler.exists(name)
Exists(i, name) ==
    /\ i \in constructed
    /\ last' = Done("exists", name, NoThrow, IF exists(i, name) THEN True ELSE False)
    /\ UNCHANGED <<proto_actions, own_actions, constructed, env, nbl>>

\* handler.call(name, event, e); ev says whether an event is given
Call(i, name, ev, e) ==
    /\ i \in constructed
    /\ \E c \in call(i, name, ev, e, nbl) :
        /\ nbl' = c.out.nbl
        /\ last' = [op |-> "call", arg |-> name, name |-> Undefined,
                    prefix |-> Undefined, event |-> ev, env |-> c.env,
                    threw |-> c.out.threw, ret |-> c.out.ret, pd |-> c.out.pd,
                    ran |-> c.ran, rawThrew |-> c.raw.threw, rawRet |-> c.raw.ret,
                    rawPd |-> c.raw.pd, sel |-> c.out.sel, opened |-> c.out.opened]
    /\ UNCHANGED <<proto_actions, own_actions, constructed, env>>

\* The state after ActionHandler.prototype._actions = fun() and
\* new ActionHandler(e), with a file list of one of the given numbers of rows.
InitRows(rows) ==
    /\ proto_actions = fun
    /\ constructed = {"i1"}
    /\ \E e \in EnvArgs \cup {Undefined} :
        /\ env = [i \in Instances |-> IF i = "i1" THEN ActionHandler(e).env ELSE EmptyEnv]
        /\ own_actions = [i \in Instances |-> IF i = "i1" THEN ActionHandler(e)._actions ELSE <<>>]
        /\ last = Done("new", e, NoThrow, Undefined)
    /\ \E r \in rows, index \in 0..(MaxRows - 1), focus \in {0, 1} :
        /\ index < r
        /\ nbl = [rows |-> r, index |-> index, focus |-> focus]

\* The registry and its dispatch on the page's handler.  get and exists change
\* nothing; they are the operators above, and operations of SpecShared.
Init == InitRows({1})

Next ==
    \/ \E partial \in EnvArgs : ExtendEnv("i1", partial)
    \/ \E action \in Data, name \in NameArgs, prefix \in PrefixArgs :
          Register("i1", action, name, prefix)
    \/ \E x \in Data \cup Names : GetName("i1", x)
    \/ \E name \in Names, ev \in BOOLEAN, e \in CallEnvArgs :
          Call("i1", name, ev, e)

Spec == Init /\ [][Next]_vars

\* Two handlers on one page: construction, registration and lookup.
SharedNext ==
    \/ \E i \in Instances, e \in EnvArgs \cup {Undefined} : Construct(i, e)
    \/ \E i \in Instances, partial \in EnvArgs : ExtendEnv(i, partial)
    \/ \E i \in Instances, action \in ValidData, name \in NameArgs, prefix \in PrefixArgs :
          Register(i, action, name, prefix)
    \/ \E i \in Instances, x \in ValidData \cup Names : GetName(i, x)
    \/ \E i \in Instances, name \in Names : Get(i, name)
    \/ \E i \in Instances, name \in Names : Exists(i, name)

SpecShared == Init /\ [][SharedNext]_vars

\* Dispatch of the built-in actions, on file lists of 1..MaxRows rows.
DispatchInit == InitRows(1..MaxRows)

DispatchNext ==
    \/ \E partial \in EnvArgs : ExtendEnv("i1", partial)
    \/ \E name \in SimpleNames \cup AdvancedNames, ev \in BOOLEAN, e \in CallEnvArgs :
          Call("i1", name, ev, e)

SpecDispatch == DispatchInit /\ [][DispatchNext]_vars

(* ------------------------------------------------------------------ *)
(* Properties                                                          *)
(* ------------------------------------------------------------------ *)
\* The error the specification names for a call of an unknown name; nothing
\* in the source throws it.
ActionNotFound == "ActionNotFound"

\* The names a table holds as its own entries.
Entries(i) == DOMAIN ActionsOf(i)

\* A call, by the operation just done, of a name the table has no entry for.
CallOfMissingName(l, i) == l.op = "call" /\ l.arg.s \notin Entries(i)

\* C1, as stated: a call of a name without an entry in the registry fails
\* with an ActionNotFound error, runs no handler and leaves the registry and
\* the held environment unchanged.
C1_ActionNotFound ==
    [][CallOfMissingName(last', "i1") =>
          /\ last'.threw = ActionNotFound
          /\ last'.ran = Undefined
          /\ UNCHANGED <<proto_actions, own_actions, env>>]_vars

\* C1, amended: a call of a name without an entry in the registry fails with
\* the TypeError of the failed property read or call (no ActionNotFound error
\* exists), runs no handler, makes no call into the file list, and leaves the
\* registry and the held environment unchanged.
C1_TypeError ==
    [][CallOfMissingName(last', "i1") =>
          /\ last'.threw = TypeError
          /\ last'.ran = Undefined
          /\ last'.sel = <<>> /\ ~last'.opened /\ ~last'.pd
          /\ UNCHANGED <<proto_actions, own_actions, env, nbl>>]_vars

\* C1 witness: with an action registered, 'no.such.action' was called and the
\* call threw.
C1_Witness ==
    /\ last.op = "call"
    /\ last.arg = Str(no_such_action)
    /\ last.threw = TypeError
    /\ Added(proto_actions) # {}

C3_AdvancedUnaltered ==
    (last.op = "call" /\ last.arg \in AdvancedNames) =>
        /\ last.threw = last.rawThrew
        /\ last.ret = last.rawRet
        /\ last.pd = last.rawPd
        /\ last.arg = Str(Ipython(ignore)) =>
              (last.threw = NoThrow /\ last.ret = True /\ ~last.pd)

\* C3 witness: 'ipython.ignore' was called with an event, returned true and
\* left the event alone.
C3_Witness ==
    /\ last.op = "call"
    /\ last.arg = Str(Ipython(ignore))
    /\ last.ran = AdvancedWrapper(ignore)
    /\ last.event /\ ~last.pd
    /\ last.ret = True

\* C4, as stated: every record of the registry has a callable handler and
\* strings for help, help_index and icon.
C4_AllFieldsStrings ==
    \A k \in Entries("i1") :
        LET a == ActionsOf("i1")[k] IN
        /\ TypeOf(Prop(a, "handler")) = "function"
        /\ TypeOf(Prop(a, "help")) = "string"
        /\ TypeOf(Prop(a, "help_index")) = "string"
        /\ TypeOf(Prop(a, "icon")) = "string"

\* A value that carries no callable handler.
NoCallableHandler(d) ==
    TypeOf(d) # "function" /\ TypeOf(Prop(d, "handler")) # "function"

\* C5, as stated: register and get_name, given data without a callable
\* handler, fail with the error of normalise and leave the registry unchanged.
C5_InvalidAction ==
    [][(/\ last'.op \in {"register", "get_name"}
        /\ TypeOf(last'.arg) # "string"
        /\ NoCallableHandler(last'.arg)) =>
          /\ last'.threw = UnknownDatatype
          /\ UNCHANGED <<proto_actions, own_actions>>]_vars

\* The normalised form of a valid action: its handler, and its help, icon and
\* help_index with the empty string for each one not supplied.
Normalised(d) ==
    LET src == IF TypeOf(d) = "function" THEN [t |-> "object", handler |-> d] ELSE d
        field(f) == IF f \in DOMAIN src THEN src[f] ELSE EmptyStr
    IN  [t |-> "object", handler |-> src.handler, help |-> field("help"),
         icon |-> field("icon"), help_index |-> field("help_index")]

\* The qualified name register is to return for the arguments of operation l.
QualifiedName(l) ==
    LET pf == IF l.prefix = Undefined THEN <<"auto">> ELSE l.prefix.s
        nm == IF l.name = Undefined
              THEN <<"autogenerated", "-">> \o FnText(Normalised(l.arg).handler)
              ELSE l.name.s
    IN  pf \o <<".">> \o nm

\* C6: register with a valid action returns "<prefix>.<name>" (prefix 'auto'
\* and name 'autogenerated-' plus the handler's text when omitted); afterwards
\* exists(that name) is true and get(that name) is the normalised action;
\* every other entry is as before.
C6_Register ==
    [][(last'.op = "register" /\ last'.threw = NoThrow) =>
          LET full == QualifiedName(last') IN
          /\ last'.ret = Str(full)
          /\ TypeOf(Lookup(ActionsOf("i1")', last'.ret)) # "undefined"
          /\ Lookup(ActionsOf("i1")', last'.ret) = Normalised(last'.arg)
          /\ Entries("i1")' = Entries("i1") \cup {full}
          /\ \A k \in Entries("i1") \ {full} : ActionsOf("i1")'[k] = ActionsOf("i1")[k]]_vars

\* C6 witness: a function was registered without name and prefix, the name
\* returned is 'auto.autogenerated-' plus its text, and the entry exists.
C6_Witness ==
    /\ last.op = "register"
    /\ last.threw = NoThrow
    /\ last.name = Undefined /\ last.prefix = Undefined
    /\ last.ret = Str(<<"auto", ".">> \o autogenerated(f1))
    /\ exists("i1", last.ret)
    /\ get("i1", last.ret).handler = f1

\* C7, as stated: get_name of a string returns the string if and only if the
\* registry has an entry of that name, and null otherwise.
C7_GetNameOfString ==
    (last.op = "get_name" /\ TypeOf(last.arg) = "string") =>
        IF last.arg.s \in Entries("i1")
        THEN last.ret = last.arg
        ELSE last.ret = Null

\* Every name the operations are given.
AllNames == Names \cup SimpleNames \cup AdvancedNames

\* C8: no operation removes an entry: a name that exists (every built-in
\* name, every registered name) exists after every next operation.
C8_NothingRemoved ==
    [][/\ Entries("i1") \subseteq Entries("i1")'
       /\ \A n \in AllNames : exists("i1", n) => exists("i1", n)']_vars

\* C8 witness: a name was registered and, operations later, a call finds all
\* built-in names and the registered name present.
C8_Witness ==
    /\ last.op = "call"
    /\ last.ran \in UserFunctions
    /\ \A n \in SimpleNames \cup AdvancedNames : exists("i1", n)
    /\ \E n \in RegisteredNames : exists("i1", n)

\* C9: all instances read one table: every name gives the same record on
\* every instance, constructed before or after a registration, and a name
\* just registered through one instance exists on every instance.
C9_SharedTable ==
    /\ \A j \in constructed, k \in constructed :
          \A n \in AllNames : get(j, n) = get(k, n)
    /\ (last.op = "register" /\ last.threw = NoThrow) =>
          \A j \in constructed :
              exists(j, last.ret) /\ get(j, last.ret) = Normalised(last.arg)

\* C9 witness: the second instance was constructed after a registration, sees
\* the registered name, and holds an environment of its own.
C9_Witness ==
    /\ last.op = "new"
    /\ constructed = Instances
    /\ \E n \in RegisteredNames : exists("i2", n) /\ get("i2", n) = get("i1", n)
    /\ env["i1"] # env["i2"]

\* C10, as stated: every select_row(i) call the row-navigation handlers make
\* has 0 <= i <= rows - 1.
C10_SelectInRange ==
    \A x \in 1..Len(last.sel) : last.sel[x] \in 0..(nbl.rows - 1)

====
